---- MODULE Spec2Model ----
(***************************************************************************)
(* A model of Spectrum (src/Python/spectrum.py): the DFG processing        *)
(* stages removeCRs, subtractBGs, padDFGs, sumFullDFGs, smoothDFGs,        *)
(* findTruncateIndices, truncateFullDFGs and sumTruncatedDFGs.             *)
(*                                                                         *)
(* numpy arrays are functions over 0..n-1 (Python's indices), the lists    *)
(* dfgs, bgs, dfgsFull, ... are sequences of DFG records in list order.    *)
(* Counts are integers.  Wavelengths are integers in units of 1/WlScale nm *)
(* and a median is carried as twice its value in those units, so that the  *)
(* half-way medians of even-length arrays stay exact.                      *)
(***************************************************************************)
EXTENDS Integers, Sequences, FiniteSets, TLC

VARIABLES
    dfgs,               \* self.dfgs: the sample DFGs
    bgs,                \* self.bgs: the background DFGs
    attrs,              \* the names of the attributes a stage has created on self
    dfgsRaw,            \* self.dfgsRaw
    dfgsFull,           \* self.dfgsFull
    dfgSum,             \* self.dfgSum
    dfgsPreSmoothed,    \* self.dfgsPreSmoothed
    truncateIndices,    \* self.truncateIndices
    dfgsFullTruncated,  \* self.dfgsFullTruncated
    dfgTruncatedSum,    \* self.dfgTruncatedSum
    ref,                \* another Spectrum that may be passed as gold
    last,               \* the last stage call: its name, whether it returned, its argument
    calls,              \* the number of stage calls made so far
    old,                \* history: dfgs, bgs, dfgsFull, truncateIndices when the last call began
    done,               \* history: the stages that have returned without an exception
    preSub,             \* history: dfgs as they were when the first subtractBGs began
    unsmoothed          \* history: dfgsFull as it was before smoothing touched it

vars == <<dfgs, bgs, attrs, dfgsRaw, dfgsFull, dfgSum, dfgsPreSmoothed, truncateIndices,
          dfgsFullTruncated, dfgTruncatedSum, ref, last, calls, old, done, preSub,
          unsmoothed>>

(***************************************************************************)
(* Bounds of the model.                                                    *)
(***************************************************************************)
MaxCalls == 3        \* stage calls explored per run
CRLen == 8           \* length of the traces the despiking runs draw
MaxThreshold == 1    \* despiking thresholds 0..MaxThreshold
TruncLen == 5        \* length of the traces the truncation runs draw
KeyLen == 2          \* length of the traces the detector-key runs draw
WlScale == 10        \* wavelength resolution: units per nm

(***************************************************************************)
(* Literals of the program.                                                *)
(***************************************************************************)
windowSize == 7
searchRange == 5
fullLen == 853
nativeLen == 444
defaultThreshold == 200

(***************************************************************************)
(* Arrays.                                                                 *)
(***************************************************************************)
ALen(a) == Cardinality(DOMAIN a)

Zeros(n) == [k \in 0..(n - 1) |-> 0]

SetMin(S) == CHOOSE x \in S : \A y \in S : x <= y

SetMax(S) == CHOOSE x \in S : \A y \in S : y <= x

Abs(x) == IF x < 0 THEN -x ELSE x

DFG(name, wl, counts) == [name |-> name, wl |-> wl, counts |-> counts]

SetCounts(dfg, counts) == [dfg EXCEPT !.counts = counts]

CountsOf(list) == [i \in 1..Len(list) |-> list[i].counts]

(***************************************************************************)
(* removeCRs / removeCRindDFG                                              *)
(***************************************************************************)
\* math.floor(windowSize/2)
numRep == windowSize \div 2

\* one value of pandas' centered rolling median: the middle order statistic of
\* the windowSize values around index c
WindowMedian(a, c) ==
    LET W == (c - numRep)..(c + numRep)
    IN  CHOOSE v \in {a[i] : i \in W} :
            /\ Cardinality({i \in W : a[i] < v}) <= numRep
            /\ Cardinality({i \in W : a[i] <= v}) > numRep

\* medians after the loop that overwrites the first and last numRep entries
\* (NaN) with the first and last computed value; defined for ALen(a) >= windowSize
MedianAt(a, k) ==
    LET n == ALen(a)
    IN  IF k < numRep THEN WindowMedian(a, numRep)
        ELSE IF k > n - numRep - 1 THEN WindowMedian(a, n - numRep - 1)
        ELSE WindowMedian(a, k)

\* the indices with spike[i] = 1.  With fewer than windowSize points every
\* rolling median is NaN and no comparison with NaN is true.
TwoSidedSpikes(a, threshold) ==
    IF ALen(a) < windowSize THEN {}
    ELSE {k \in DOMAIN a : Abs(a[k] - MedianAt(a, k)) > threshold}

SpikeIndices(a, threshold) ==
    IF ALen(a) < windowSize THEN {}
    ELSE {k \in DOMAIN a : a[k] - MedianAt(a, k) > threshold}

\* the locals left and right of removeCRindDFG: not yet assigned, [] or a value
Unbound == [st |-> "unbound", v |-> 0]

Empty == [st |-> "empty", v |-> 0]

Found(v) == [st |-> "val", v |-> v]

\* the first for j in range(5) loop: it assigns left and breaks at the first j
\* that runs off the array or meets a non-spike; if no j does, left keeps the
\* value it had
ScanLeft(c, spike, i, left) ==
    LET stops == {j \in 0..(searchRange - 1) : (i - 1 - j) < 0 \/ (i - 1 - j) \notin spike}
    IN  IF stops = {} THEN left
        ELSE LET j == SetMin(stops)
             IN  IF (i - 1 - j) < 0 THEN Empty ELSE Found(c[i - 1 - j])

\* the second for j in range(5) loop
ScanRight(c, spike, i, right) ==
    LET stops == {j \in 0..(searchRange - 1) :
                     (i + j + 1) >= ALen(c) \/ (i + 1 + j) \notin spike}
    IN  IF stops = {} THEN right
        ELSE LET j == SetMin(stops)
             IN  IF (i + j + 1) >= ALen(c) THEN Empty ELSE Found(c[i + 1 + j])

\* math.floor(tempValArray.mean()) of the one or two values appended
CeilAve(total, count) == -((-total) \div count)

FloorAve(total, count) == total \div count

\* the loop over the spikes, in index order, from spike index i on.  The state
\* carried from one spike to the next is the array and the locals left, right.
RECURSIVE ReplaceFrom(_, _, _, _, _)
ReplaceFrom(c, spike, i, left, right) ==
    LET later == {k \in spike : k >= i}
    IN  IF later = {} THEN [counts |-> c, ok |-> TRUE]
        ELSE
          LET s == SetMin(later)
              l == ScanLeft(c, spike, s, left)
              r == ScanRight(c, spike, s, right)
              total == (IF l.st = "val" THEN l.v ELSE 0) + (IF r.st = "val" THEN r.v ELSE 0)
              count == (IF l.st = "val" THEN 1 ELSE 0) + (IF r.st = "val" THEN 1 ELSE 0)
          IN  IF l.st = "unbound" \/ r.st = "unbound"
                THEN [counts |-> c, ok |-> FALSE]       \* UnboundLocalError
              ELSE IF count = 0
                THEN [counts |-> c, ok |-> FALSE]       \* math.floor(nan): ValueError
              ELSE ReplaceFrom([c EXCEPT ![s] = FloorAve(total, count)], spike, s + 1, l, r)

\* removeCRindDFG(dfg, threshold) on dfg.counts: medians[numRep] is a KeyError
\* when the series has no index numRep
removeCRindDFG(c, threshold) ==
    IF ALen(c) <= numRep THEN [counts |-> c, ok |-> FALSE]
    ELSE ReplaceFrom(c, SpikeIndices(c, threshold), 0, Unbound, Unbound)

\* for dfg in list: removeCRindDFG(dfg, threshold), from position i on; an
\* exception ends the loop and leaves the later DFGs as they were
RECURSIVE RemoveAll(_, _, _)
RemoveAll(list, i, threshold) ==
    IF i > Len(list) THEN [list |-> list, ok |-> TRUE]
    ELSE LET r == removeCRindDFG(list[i].counts, threshold)
             upd == [list EXCEPT ![i] = SetCounts(list[i], r.counts)]
         IN  IF r.ok THEN RemoveAll(upd, i + 1, threshold)
             ELSE [list |-> upd, ok |-> FALSE]

Snapshot == [dfgs |-> CountsOf(dfgs), bgs |-> CountsOf(bgs),
             dfgsFull |-> CountsOf(dfgsFull), truncateIndices |-> truncateIndices,
             refIndices |-> ref.truncateIndices]

Call(op, ok, arg) ==
    /\ last' = [op |-> op, ok |-> ok, arg |-> arg]
    /\ calls' = calls + 1
    /\ old' = Snapshot
    /\ done' = IF ok THEN done \cup {op} ELSE done

removeCRs(threshold) ==
    /\ calls < MaxCalls
    /\ LET d == RemoveAll(dfgs, 1, threshold)
           b == IF d.ok THEN RemoveAll(bgs, 1, threshold) ELSE [list |-> bgs, ok |-> FALSE]
       IN  /\ dfgs' = d.list
           /\ bgs' = b.list
           /\ Call("removeCRs", b.ok, threshold)
    /\ UNCHANGED <<attrs, dfgsRaw, dfgsFull, dfgSum, dfgsPreSmoothed, truncateIndices,
                   dfgsFullTruncated, dfgTruncatedSum, ref, preSub, unsmoothed>>

(***************************************************************************)
(* The detector key: int(np.median(dfg.wl)).  The wavelength arrays the    *)
(* loader supplies are not empty.                                          *)
(***************************************************************************)
\* the element at position r (from 0) of sorted(a)
OrderStat(a, r) ==
    CHOOSE v \in {a[i] : i \in DOMAIN a} :
        /\ Cardinality({i \in DOMAIN a : a[i] < v}) <= r
        /\ Cardinality({i \in DOMAIN a : a[i] <= v}) > r

\* twice np.median(a): the middle element, or the mean of the two middle ones
Median2(a) ==
    LET n == ALen(a)
    IN  IF n % 2 = 1 THEN 2 * OrderStat(a, (n - 1) \div 2)
        ELSE OrderStat(a, (n \div 2) - 1) + OrderStat(a, n \div 2)

\* Python's round(num/den): to the nearest integer, halves to the even one
RoundHalfEven(num, den) ==
    LET q == num \div den
        r == num % den
    IN  IF 2 * r < den THEN q
        ELSE IF 2 * r > den THEN q + 1
        ELSE IF q % 2 = 0 THEN q ELSE q + 1

\* Python's int(num/den): the fraction is dropped, towards zero
IntTrunc(num, den) == IF num >= 0 THEN num \div den ELSE -((-num) \div den)

RoundedKey(wl) == RoundHalfEven(Median2(wl), 2 * WlScale)

DetKey(wl) == IntTrunc(Median2(wl), 2 * WlScale)

(***************************************************************************)
(* numpy's elementwise a - b and a + b of one-dimensional arrays: equal    *)
(* lengths, or one of them of length 1 (broadcast); a ValueError otherwise *)
(***************************************************************************)
Broadcastable(a, b) == ALen(a) = ALen(b) \/ ALen(a) = 1 \/ ALen(b) = 1

NpLen(a, b) == IF ALen(a) = 1 THEN ALen(b) ELSE ALen(a)

NpSub(a, b) ==
    [k \in 0..(NpLen(a, b) - 1) |->
        a[IF ALen(a) = 1 THEN 0 ELSE k] - b[IF ALen(b) = 1 THEN 0 ELSE k]]

NpAdd(a, b) ==
    [k \in 0..(NpLen(a, b) - 1) |->
        a[IF ALen(a) = 1 THEN 0 ELSE k] + b[IF ALen(b) = 1 THEN 0 ELSE k]]

(***************************************************************************)
(* subtractBGs                                                             *)
(***************************************************************************)
\* a variant that stops at the first matching background
RECURSIVE SubtractFirstMatch(_, _, _, _)
SubtractFirstMatch(c, key, list, j) ==
    IF j > Len(list) THEN [counts |-> c, ok |-> TRUE]
    ELSE IF key # DetKey(list[j].wl) THEN SubtractFirstMatch(c, key, list, j + 1)
    ELSE IF ~Broadcastable(c, list[j].counts) THEN [counts |-> c, ok |-> FALSE]
    ELSE [counts |-> NpSub(c, list[j].counts), ok |-> TRUE]

\* for bg in self.bgs, from position j on, for the DFG with counts c whose
\* median wavelength gave key
RECURSIVE SubtractMatching(_, _, _, _)
SubtractMatching(c, key, list, j) ==
    IF j > Len(list) THEN [counts |-> c, ok |-> TRUE]
    ELSE IF key # DetKey(list[j].wl) THEN SubtractMatching(c, key, list, j + 1)
    ELSE IF ~Broadcastable(c, list[j].counts) THEN [counts |-> c, ok |-> FALSE]
    ELSE SubtractMatching(NpSub(c, list[j].counts), key, list, j + 1)

\* for dfg in self.dfgs, from position i on
RECURSIVE SubtractAll(_, _, _)
SubtractAll(list, backgrounds, i) ==
    IF i > Len(list) THEN [list |-> list, ok |-> TRUE]
    ELSE LET r == SubtractMatching(list[i].counts, DetKey(list[i].wl), backgrounds, 1)
             upd == [list EXCEPT ![i] = SetCounts(list[i], r.counts)]
         IN  IF r.ok THEN SubtractAll(upd, backgrounds, i + 1)
             ELSE [list |-> upd, ok |-> FALSE]

subtractBGs ==
    /\ calls < MaxCalls
    /\ dfgsRaw' = dfgs
    /\ attrs' = attrs \cup {"dfgsRaw"}
    /\ LET r == SubtractAll(dfgs, bgs, 1)
       IN  /\ dfgs' = r.list
           /\ Call("subtractBGs", r.ok, 0)
    /\ preSub' = IF preSub.set THEN preSub ELSE [set |-> TRUE, dfgs |-> CountsOf(dfgs)]
    /\ UNCHANGED <<bgs, dfgsFull, dfgSum, dfgsPreSmoothed, truncateIndices,
                   dfgsFullTruncated, dfgTruncatedSum, ref, unsmoothed>>

(***************************************************************************)
(* padDFGs.  The keys 'det620' ... of the dictionary are the integers.     *)
(***************************************************************************)
padding ==
    (620 :> <<0, 409>>) @@ (625 :> <<58, 351>>) @@ (630 :> <<116, 293>>) @@
    (635 :> <<174, 235>>) @@ (640 :> <<232, 177>>) @@ (645 :> <<291, 118>>) @@
    (655 :> <<409, 0>>)

\* np.append(np.append(np.zeros(leftPad), counts), np.zeros(rightPad))
PadCounts(c, leftPad, rightPad) ==
    [k \in 0..(leftPad + ALen(c) + rightPad - 1) |->
        IF k < leftPad \/ k >= leftPad + ALen(c) THEN 0 ELSE c[k - leftPad]]

\* for dfg in self.dfgsFull, from position i on; padding[key] is a KeyError
\* for a key the dictionary does not have
RECURSIVE PadAll(_, _)
PadAll(list, i) ==
    IF i > Len(list) THEN [list |-> list, ok |-> TRUE]
    ELSE LET key == DetKey(list[i].wl)
         IN  IF key \notin DOMAIN padding THEN [list |-> list, ok |-> FALSE]
             ELSE PadAll([list EXCEPT ![i] =
                            SetCounts(list[i],
                                      PadCounts(list[i].counts, padding[key][1],
                                                padding[key][2]))],
                         i + 1)

padDFGs ==
    /\ calls < MaxCalls
    /\ LET r == PadAll(dfgs, 1)
       IN  /\ dfgsFull' = r.list
           /\ Call("padDFGs", r.ok, 0)
    /\ attrs' = attrs \cup {"dfgsFull"}
    /\ unsmoothed' = [unsmoothed EXCEPT !.smoothed = FALSE]
    /\ UNCHANGED <<dfgs, bgs, dfgsRaw, dfgSum, dfgsPreSmoothed, truncateIndices,
                   dfgsFullTruncated, dfgTruncatedSum, ref, preSub>>

(***************************************************************************)
(* sumFullDFGs and sumTruncatedDFGs                                        *)
(***************************************************************************)
\* acc = acc + dfg.counts for dfg in list, from position i on
RECURSIVE SumFrom(_, _, _)
SumFrom(acc, list, i) ==
    IF i > Len(list) THEN [sum |-> acc, ok |-> TRUE]
    ELSE IF ~Broadcastable(acc, list[i].counts) THEN [sum |-> acc, ok |-> FALSE]
    ELSE SumFrom(NpAdd(acc, list[i].counts), list, i + 1)

\* the sum started from the attribute's earlier value, when it has one
SumListKeep(list, prev) ==
    SumFrom(IF ALen(prev) = fullLen THEN prev ELSE Zeros(fullLen), list, 1)

\* the sum of a list, the attribute holding prev before: it starts from np.zeros(853)
SumList(list, prev) == SumFrom(Zeros(fullLen), list, 1)

\* self.dfgSum = np.zeros(853) is assigned before self.dfgsFull is read
sumFullDFGs ==
    /\ calls < MaxCalls
    /\ attrs' = attrs \cup {"dfgSum"}
    /\ IF "dfgsFull" \in attrs
         THEN LET r == SumList(dfgsFull, dfgSum)
              IN  dfgSum' = r.sum /\ Call("sumFullDFGs", r.ok, 0)
         ELSE dfgSum' = Zeros(fullLen) /\ Call("sumFullDFGs", FALSE, 0)
    /\ UNCHANGED <<dfgs, bgs, dfgsRaw, dfgsFull, dfgsPreSmoothed, truncateIndices,
                   dfgsFullTruncated, dfgTruncatedSum, ref, preSub, unsmoothed>>

sumTruncatedDFGs ==
    /\ calls < MaxCalls
    /\ attrs' = attrs \cup {"dfgTruncatedSum"}
    /\ IF "dfgsFullTruncated" \in attrs
         THEN LET r == SumList(dfgsFullTruncated, dfgTruncatedSum)
              IN  dfgTruncatedSum' = r.sum /\ Call("sumTruncatedDFGs", r.ok, 0)
         ELSE dfgTruncatedSum' = Zeros(fullLen) /\ Call("sumTruncatedDFGs", FALSE, 0)
    /\ UNCHANGED <<dfgs, bgs, dfgsRaw, dfgsFull, dfgSum, dfgsPreSmoothed, truncateIndices,
                   dfgsFullTruncated, ref, preSub, unsmoothed>>

(***************************************************************************)
(* smoothDFGs.  gaussian_filter1d(counts, sigma) is scipy's: a convolution *)
(* with a normalised kernel of radius int(4 * sigma + 0.5), the array      *)
(* mirrored at both edges (mode 'reflect').  The model keeps the radius,   *)
(* the reflection and the normalisation, and takes integer weights that    *)
(* fall linearly from the centre in place of the Gaussian ones.            *)
(***************************************************************************)
Reflect(k, n) == LET m == k % (2 * n) IN IF m < n THEN m ELSE 2 * n - 1 - m

RECURSIVE WeightedSum(_, _, _, _, _)
WeightedSum(c, k, radius, d, acc) ==
    IF d > radius THEN acc
    ELSE WeightedSum(c, k, radius, d + 1,
                     acc + (radius + 1 - Abs(d)) * c[Reflect(k + d, ALen(c))])

gaussian_filter1d(c, sigma) ==
    LET radius == 4 * sigma
        total == (radius + 1) * (radius + 1)
    IN  [k \in DOMAIN c |-> WeightedSum(c, k, radius, -radius, 0) \div total]

\* the widths a run passes for sigma (the default is 5)
Sigmas == {2}

smoothDFGs(sigma) ==
    /\ calls < MaxCalls
    /\ IF "dfgsFull" \in attrs
         THEN /\ dfgsPreSmoothed' = dfgsFull
              /\ attrs' = attrs \cup {"dfgsPreSmoothed"}
              /\ dfgsFull' = [i \in 1..Len(dfgsFull) |->
                                SetCounts(dfgsFull[i],
                                          gaussian_filter1d(dfgsFull[i].counts, sigma))]
              /\ unsmoothed' = IF unsmoothed.smoothed THEN unsmoothed
                               ELSE [set |-> TRUE, smoothed |-> TRUE,
                                     dfgsFull |-> CountsOf(dfgsFull)]
              /\ Call("smoothDFGs", TRUE, sigma)
         ELSE /\ UNCHANGED <<dfgsPreSmoothed, attrs, dfgsFull, unsmoothed>>
              /\ Call("smoothDFGs", FALSE, sigma)
    /\ UNCHANGED <<dfgs, bgs, dfgsRaw, dfgSum, truncateIndices, dfgsFullTruncated,
                   dfgTruncatedSum, ref, preSub>>

(***************************************************************************)
(* findTruncateIndices.  The threshold is the fraction fr[1]/fr[2]; the    *)
(* distance |counts[k] - maxVal*threshold| is compared times fr[2].        *)
(***************************************************************************)
\* the thresholds a run may pass: the default 0.05, and others within (0, 1)
Fractions == << <<1, 20>>, <<1, 2>>, <<3, 5>> >>

\* the first index in lo..hi with the least d[k], by halving the range
RECURSIVE ArgMinBy(_, _, _)
ArgMinBy(d, lo, hi) ==
    IF lo = hi THEN lo
    ELSE LET mid == (lo + hi) \div 2
             a == ArgMinBy(d, lo, mid)
             b == ArgMinBy(d, mid + 1, hi)
         IN  IF d[b] < d[a] THEN b ELSE a

\* dfg.counts.argmax(): the first index of the maximum
ArgMax(c) == LET neg == [k \in DOMAIN c |-> -c[k]] IN ArgMinBy(neg, 0, ALen(c) - 1)

\* lo + np.abs(counts[lo:hi+1] - maxVal*threshold).argmin(): the first index
\* of the least distance
ArgMinDist(c, lo, hi, maxVal, fr) ==
    LET dist == [k \in lo..hi |-> Abs(c[k] * fr[2] - maxVal * fr[1])]
    IN  ArgMinBy(dist, lo, hi)

\* for dfg in self.dfgsFull, from position i on, idx being the list so far;
\* max() and argmin() of an empty array are a ValueError
RECURSIVE FindAll(_, _, _, _)
FindAll(list, i, fr, idx) ==
    IF i > Len(list) THEN [idx |-> idx, ok |-> TRUE]
    ELSE LET c == list[i].counts
         IN  IF ALen(c) = 0 THEN [idx |-> idx, ok |-> FALSE]
             ELSE LET maxIndex == ArgMax(c)
                      maxVal == c[maxIndex]
                  IN  IF maxIndex = 0 THEN [idx |-> idx, ok |-> FALSE]
                      ELSE FindAll(list, i + 1, fr,
                                   Append(idx,
                                          <<ArgMinDist(c, 0, maxIndex - 1, maxVal, fr),
                                            ArgMinDist(c, maxIndex, ALen(c) - 1, maxVal, fr)>>))

\* self.truncateIndices = [] is assigned before self.dfgsFull is read
findTruncateIndices(f) ==
    /\ calls < MaxCalls
    /\ attrs' = attrs \cup {"truncateIndices"}
    /\ IF "dfgsFull" \in attrs
         THEN LET r == FindAll(dfgsFull, 1, Fractions[f], <<>>)
              IN  truncateIndices' = r.idx /\ Call("findTruncateIndices", r.ok, f)
         ELSE truncateIndices' = <<>> /\ Call("findTruncateIndices", FALSE, f)
    /\ UNCHANGED <<dfgs, bgs, dfgsRaw, dfgsFull, dfgSum, dfgsPreSmoothed,
                   dfgsFullTruncated, dfgTruncatedSum, ref, preSub, unsmoothed>>

(***************************************************************************)
(* truncateFullDFGs(gold): gold is self (0) or the other Spectrum (1)      *)
(***************************************************************************)
Golds == {0, 1}

GoldHasIndices(g) == IF g = 0 THEN "truncateIndices" \in attrs ELSE ref.has

GoldIndices(g) == IF g = 0 THEN truncateIndices ELSE ref.truncateIndices

\* a variant that also zeroes the point at leftIndex
TruncateInclusive(c, leftIndex, rightIndex) ==
    [k \in DOMAIN c |-> IF k <= leftIndex \/ k >= rightIndex THEN 0 ELSE c[k]]

\* dfg.counts[:leftIndex] = 0 and dfg.counts[rightIndex:] = 0
TruncateCounts(c, leftIndex, rightIndex) ==
    [k \in DOMAIN c |-> IF k < leftIndex \/ k >= rightIndex THEN 0 ELSE c[k]]

\* for i, dfg in enumerate(self.dfgsFullTruncated), from position i on:
\* gold.truncateIndices is an AttributeError when gold has none,
\* gold.truncateIndices[i] an IndexError past its end
RECURSIVE TruncateAll(_, _, _)
TruncateAll(list, i, g) ==
    IF i > Len(list) THEN [list |-> list, ok |-> TRUE]
    ELSE IF ~GoldHasIndices(g) \/ i > Len(GoldIndices(g)) THEN [list |-> list, ok |-> FALSE]
    ELSE TruncateAll([list EXCEPT ![i] =
                        SetCounts(list[i],
                                  TruncateCounts(list[i].counts, GoldIndices(g)[i][1],
                                                 GoldIndices(g)[i][2]))],
                     i + 1, g)

truncateFullDFGs(g) ==
    /\ calls < MaxCalls
    /\ IF "dfgsFull" \in attrs
         THEN LET r == TruncateAll(dfgsFull, 1, g)
              IN  /\ dfgsFullTruncated' = r.list
                  /\ attrs' = attrs \cup {"dfgsFullTruncated"}
                  /\ Call("truncateFullDFGs", r.ok, g)
         ELSE /\ UNCHANGED <<dfgsFullTruncated, attrs>>
              /\ Call("truncateFullDFGs", FALSE, g)
    /\ UNCHANGED <<dfgs, bgs, dfgsRaw, dfgsFull, dfgSum, dfgsPreSmoothed, truncateIndices,
                   dfgTruncatedSum, ref, preSub, unsmoothed>>

(***************************************************************************)
(* The despiking runs: one trace of CRLen counts as the sample, its mirror *)
(* image or a flat trace as the background, one call of removeCRs.         *)
(***************************************************************************)
CountVals == {0, 1, 3}

Thresholds == 0..MaxThreshold

ConstArr(n, v) == [k \in 0..(n - 1) |-> v]

Mirror(a) == [k \in DOMAIN a |-> a[ALen(a) - 1 - k]]

NoRef == [has |-> FALSE, truncateIndices |-> <<>>, found |-> FALSE]

Fresh ==
    /\ attrs = {}
    /\ dfgsRaw = <<>>
    /\ dfgsFull = <<>>
    /\ dfgSum = <<>>
    /\ dfgsPreSmoothed = <<>>
    /\ truncateIndices = <<>>
    /\ dfgsFullTruncated = <<>>
    /\ dfgTruncatedSum = <<>>
    /\ last = [op |-> "init", ok |-> TRUE, arg |-> 0]
    /\ old = [dfgs |-> <<>>, bgs |-> <<>>, dfgsFull |-> <<>>, truncateIndices |-> <<>>,
              refIndices |-> <<>>]
    /\ done = {}
    /\ preSub = [set |-> FALSE, dfgs |-> <<>>]
    /\ unsmoothed = [set |-> FALSE, smoothed |-> FALSE, dfgsFull |-> <<>>]

InitCR ==
    /\ \E c \in [0..(CRLen - 1) -> CountVals] :
       \E b \in {Mirror(c), Zeros(CRLen)} :
          /\ dfgs = <<DFG("620", ConstArr(CRLen, 620 * WlScale), c)>>
          /\ bgs = <<DFG("620bg", ConstArr(CRLen, 620 * WlScale), b)>>
    /\ ref = NoRef
    /\ calls = MaxCalls - 1
    /\ Fresh

NextCR == \E threshold \in Thresholds : removeCRs(threshold)

SpecCR == InitCR /\ [][NextCR]_vars

(***************************************************************************)
(* The detector-key runs: one sample and one background of KeyLen points,  *)
(* their wavelengths drawn around 620 and 621 nm, one call of subtractBGs  *)
(* or padDFGs.                                                             *)
(***************************************************************************)
WlVals == {620 * WlScale + d : d \in {0, 4, 6, WlScale, WlScale + 6}}

InitKey ==
    /\ \E ws \in [0..(KeyLen - 1) -> WlVals] :
       \E wb \in [0..(KeyLen - 1) -> WlVals] :
          /\ dfgs = <<DFG("1", ws, ConstArr(KeyLen, 5))>>
          /\ bgs = <<DFG("1bg", wb, ConstArr(KeyLen, 2))>>
    /\ ref = NoRef
    /\ calls = MaxCalls - 1
    /\ Fresh

NextKey == subtractBGs \/ padDFGs

SpecKey == InitKey /\ [][NextKey]_vars

(***************************************************************************)
(* The truncation runs: two samples of TruncLen points on the first or the *)
(* last detector, padded, indexed and truncated by their own indices.      *)
(***************************************************************************)
TruncVals == {0, 1, 3}

InitTrunc ==
    /\ \E c \in [0..(TruncLen - 1) -> TruncVals] :
       \E key \in {620, 655} :
          dfgs = <<DFG("1", ConstArr(TruncLen, key * WlScale), c),
                   DFG("2", ConstArr(TruncLen, key * WlScale), Mirror(c))>>
    /\ bgs = <<>>
    /\ ref = NoRef
    /\ calls = 0
    /\ Fresh

NextTrunc ==
    \/ padDFGs
    \/ \E f \in 1..Len(Fractions) : findTruncateIndices(f)
    \/ truncateFullDFGs(0)

SpecTrunc == InitTrunc /\ [][NextTrunc]_vars

(***************************************************************************)
(* The pipeline runs: samples of the detector's native length, every stage *)
(* callable in any order, MaxCalls calls.                                  *)
(***************************************************************************)
Ramp(n) == [k \in 0..(n - 1) |-> k + 1]

Peak(n, p, h) == [k \in 0..(n - 1) |-> IF Abs(k - p) >= h THEN 0 ELSE h - Abs(k - p)]

\* a cosmic ray of v counts on top of a[i]
Spiked(a, i, v) == [a EXCEPT ![i] = @ + v]

Wave(n, key) == ConstArr(n, key * WlScale + 4)

\* the state of a Spectrum after padDFGs() and findTruncateIndices() on list
RefFrom(list) ==
    LET p == PadAll(list, 1)
        r == FindAll(p.list, 1, Fractions[1], <<>>)
    IN  [has |-> TRUE, truncateIndices |-> r.idx, found |-> p.ok /\ r.ok]

GoldDfgs ==
    <<DFG("620", Wave(nativeLen, 620), Peak(nativeLen, 200, 100)),
      DFG("630", Wave(nativeLen, 630), Peak(nativeLen, 250, 80))>>

Configs ==
    << \* two detectors, each with its background, one of them all zero
       [dfgs |-> <<DFG("620", Wave(nativeLen, 620),
                       Spiked(Ramp(nativeLen), 100, 5 * defaultThreshold)),
                   DFG("630", Wave(nativeLen, 630), Peak(nativeLen, 300, 90))>>,
        bgs |-> <<DFG("620bg", Wave(nativeLen, 620), ConstArr(nativeLen, 10)),
                  DFG("630bg", Wave(nativeLen, 630), Zeros(nativeLen))>>,
        ref |-> RefFrom(GoldDfgs)],
       \* two backgrounds of the first sample's detector, a second sample of a
       \* detector the padding dictionary does not know
       [dfgs |-> <<DFG("620", Wave(nativeLen, 620), Ramp(nativeLen)),
                   DFG("650", Wave(nativeLen, 650), ConstArr(nativeLen, 5))>>,
        bgs |-> <<DFG("620bg", Wave(nativeLen, 620), ConstArr(nativeLen, 10)),
                  DFG("620xbg", Wave(nativeLen, 620), ConstArr(nativeLen, 3))>>,
        ref |-> RefFrom(<<GoldDfgs[1]>>)],
       \* one flat sample on the last detector
       [dfgs |-> <<DFG("655", Wave(nativeLen, 655), ConstArr(nativeLen, 7))>>,
        bgs |-> <<DFG("655bg", Wave(nativeLen, 655), ConstArr(nativeLen, 2))>>,
        ref |-> RefFrom(<<GoldDfgs[1]>>)],
       \* one all-zero sample on the first detector, no background
       [dfgs |-> <<DFG("620", Wave(nativeLen, 620), Zeros(nativeLen))>>,
        bgs |-> <<>>,
        ref |-> NoRef],
       \* one sample a point short of the native length
       [dfgs |-> <<DFG("630", Wave(nativeLen - 1, 630), Ramp(nativeLen - 1))>>,
        bgs |-> <<DFG("630bg", Wave(nativeLen - 1, 630), ConstArr(nativeLen - 1, 1))>>,
        ref |-> NoRef] >>

Init ==
    /\ \E n \in 1..Len(Configs) :
          /\ dfgs = Configs[n].dfgs
          /\ bgs = Configs[n].bgs
          /\ ref = Configs[n].ref
    /\ calls = 0
    /\ Fresh

Next ==
    \/ removeCRs(defaultThreshold)
    \/ subtractBGs
    \/ padDFGs
    \/ sumFullDFGs
    \/ \E sigma \in Sigmas : smoothDFGs(sigma)
    \/ findTruncateIndices(1)
    \/ \E g \in Golds : truncateFullDFGs(g)
    \/ sumTruncatedDFGs

Spec == Init /\ [][Next]_vars

(***************************************************************************)
(* Properties.  The despiking properties restate the rolling median and    *)
(* the neighbour search from their description, by sorting each window,    *)
(* and compare the arrays after a call with the arrays recorded in old.    *)
(***************************************************************************)
RECURSIVE InsertSorted(_, _)
InsertSorted(s, v) ==
    IF s = <<>> THEN <<v>>
    ELSE IF v <= Head(s) THEN <<v>> \o s
    ELSE <<Head(s)>> \o InsertSorted(Tail(s), v)

RECURSIVE SortedRange(_, _, _)
SortedRange(a, lo, hi) ==
    IF lo > hi THEN <<>> ELSE InsertSorted(SortedRange(a, lo, hi - 1), a[hi])

\* centered window-7 rolling median, the first and last 3 positions taking the
\* nearest fully computed median
RollingMedian7(a, i) ==
    LET n == ALen(a)
        c == IF i < 3 THEN 3 ELSE IF i > n - 4 THEN n - 4 ELSE i
    IN  SortedRange(a, c - 3, c + 3)[4]

Flagged(a, threshold) == {i \in DOMAIN a : a[i] - RollingMedian7(a, i) > threshold}

\* the nearest unflagged index among the up-to-5 positions strictly left / right of i
LeftNeighbours(a, F, i) == {k \in DOMAIN a : k < i /\ k >= i - 5 /\ k \notin F}

RightNeighbours(a, F, i) == {k \in DOMAIN a : k > i /\ k <= i + 5 /\ k \notin F}

NeighbourValues(a, F, i) ==
    (IF LeftNeighbours(a, F, i) = {} THEN <<>>
     ELSE <<a[SetMax(LeftNeighbours(a, F, i))]>>)
    \o (IF RightNeighbours(a, F, i) = {} THEN <<>>
        ELSE <<a[SetMin(RightNeighbours(a, F, i))]>>)

SeqSum(v) == IF Len(v) = 0 THEN 0 ELSE IF Len(v) = 1 THEN v[1] ELSE v[1] + v[2]

\* the pairs <<array before, array after>> of every trace the last call went over
TracePairs ==
    {<<old.dfgs[p], dfgs[p].counts>> : p \in 1..Len(dfgs)}
        \cup {<<old.bgs[p], bgs[p].counts>> : p \in 1..Len(bgs)}

C9_OnlySpikesChange ==
    last.op = "removeCRs" =>
        \A pr \in TracePairs :
            LET a == pr[1]
                b == pr[2]
                F == Flagged(a, last.arg)
            IN  /\ DOMAIN b = DOMAIN a
                /\ \A i \in DOMAIN a : i \notin F => b[i] = a[i]
                /\ F = {} => b = a

\* one trace with a replaced spike and a kept negative dip, another left whole
C9_Witness ==
    /\ last.op = "removeCRs"
    /\ \E pr \in TracePairs :
         LET a == pr[1]
             F == Flagged(a, last.arg)
         IN  /\ \E i \in F : pr[2][i] # a[i]
             /\ \E i \in DOMAIN a :
                   a[i] - RollingMedian7(a, i) < -last.arg /\ pr[2][i] = a[i]
    /\ \E pr \in TracePairs : Flagged(pr[1], last.arg) = {} /\ pr[2] = pr[1]

(***************************************************************************)
(* Properties of the pipeline stages.                                      *)
(***************************************************************************)
\* the sum of f[x] over the x in S
RECURSIVE SumOver(_, _)
SumOver(f, S) ==
    IF S = {} THEN 0
    ELSE LET x == CHOOSE y \in S : TRUE IN f[x] + SumOver(f, S \ {x})

\* the backgrounds whose detector key is that of sample p
Matching(p) == {j \in 1..Len(bgs) : DetKey(bgs[j].wl) = DetKey(dfgs[p].wl)}

\* C2: after subtractBGs each sample's counts are its counts before the call
\* minus, elementwise, the counts of every background with the sample's
\* detector key; a sample without such a background, or with all-zero ones,
\* has the counts it had.
C2_SubtractsEveryMatch ==
    last.op = "subtractBGs" =>
        /\ last.ok
        /\ Len(dfgs) = Len(old.dfgs)
        /\ \A p \in 1..Len(dfgs) :
             LET M == Matching(p)
                 before == old.dfgs[p]
                 after == dfgs[p].counts
             IN  /\ DOMAIN after = DOMAIN before
                 /\ \A k \in DOMAIN before :
                       LET bg == [j \in M |-> bgs[j].counts[k]]
                       IN  after[k] = before[k] - SumOver(bg, M)
                 /\ M = {} => after = before
                 /\ (\A j \in M : \A k \in DOMAIN bgs[j].counts : bgs[j].counts[k] = 0)
                       => after = before

\* a sample with two matching backgrounds, both subtracted, beside a sample
\* with none
C2_Witness ==
    /\ last.op = "subtractBGs"
    /\ \E p \in 1..Len(dfgs) :
          /\ Cardinality(Matching(p)) = 2
          /\ \A j \in Matching(p) : bgs[j].counts[0] > 0
          /\ dfgs[p].counts # old.dfgs[p]
    /\ \E p \in 1..Len(dfgs) : Matching(p) = {} /\ dfgs[p].counts = old.dfgs[p]

\* C4: after truncateFullDFGs(gold) with as many pairs in gold.truncateIndices
\* as traces in dfgsFull, the i-th truncated trace is 0 outside
\* [leftIndex_i, rightIndex_i) and the i-th dfgsFull trace inside it; dfgsFull
\* and gold.truncateIndices are unchanged.
C4_TruncatedOutsideOnly ==
    (/\ last.op = "truncateFullDFGs"
     /\ "dfgsFull" \in attrs
     /\ GoldHasIndices(last.arg)
     /\ Len(GoldIndices(last.arg)) = Len(dfgsFull)) =>
        /\ last.ok
        /\ Len(dfgsFullTruncated) = Len(dfgsFull)
        /\ \A i \in 1..Len(dfgsFull) :
             LET leftIndex == GoldIndices(last.arg)[i][1]
                 rightIndex == GoldIndices(last.arg)[i][2]
                 full == old.dfgsFull[i]
                 cut == dfgsFullTruncated[i].counts
             IN  /\ DOMAIN cut = DOMAIN full
                 /\ \A k \in DOMAIN full :
                       cut[k] = IF leftIndex <= k /\ k < rightIndex THEN full[k] ELSE 0
        /\ CountsOf(dfgsFull) = old.dfgsFull
        /\ truncateIndices = old.truncateIndices
        /\ ref.truncateIndices = old.refIndices

\* two traces cut by the other Spectrum's two pairs, counts on both sides of a
\* kept range zeroed
C4_Witness ==
    /\ last.op = "truncateFullDFGs"
    /\ last.arg = 1
    /\ last.ok
    /\ Len(dfgsFull) = 2
    /\ Len(ref.truncateIndices) = 2
    /\ \E i \in 1..2 :
         LET leftIndex == ref.truncateIndices[i][1]
             rightIndex == ref.truncateIndices[i][2]
             c == dfgsFull[i].counts
         IN  /\ \E k \in DOMAIN c : k < leftIndex /\ c[k] # 0
             /\ \E k \in DOMAIN c : k >= rightIndex /\ c[k] # 0
             /\ \E k \in DOMAIN c : dfgsFullTruncated[i].counts[k] # 0

\* the samples C5 is about: native length 444, detector keys in the table
NativeSamples ==
    \A i \in 1..Len(dfgs) :
        ALen(dfgs[i].counts) = 444 /\ DetKey(dfgs[i].wl) \in DOMAIN padding

\* zeros(leftPad) ++ counts ++ zeros(rightPad) for sample i: 853 values
Padded(i) ==
    LET leftPad == padding[DetKey(dfgs[i].wl)][1]
    IN  [k \in 0..852 |->
            IF leftPad <= k /\ k < leftPad + 444 THEN dfgs[i].counts[k - leftPad] ELSE 0]

IsPadded ==
    /\ "dfgsFull" \in attrs
    /\ Len(dfgsFull) = Len(dfgs)
    /\ \A i \in 1..Len(dfgs) : dfgsFull[i].counts = Padded(i)

\* C5: for samples of native length 444 with keys in the table, padDFGs
\* leaves every dfgsFull trace of length 853 as zeros(leftPad) ++ counts ++
\* zeros(rightPad) (every entry has leftPad + 444 + rightPad = 853) and dfgs
\* unchanged; sumFullDFGs then leaves dfgSum of length 853, at each index the
\* sum of the samples covering it, whatever dfgSum held before.
C5_PadAndSum ==
    NativeSamples =>
        /\ \A key \in DOMAIN padding : padding[key][1] + 444 + padding[key][2] = 853
        /\ last.op = "padDFGs" =>
              /\ last.ok
              /\ IsPadded
              /\ CountsOf(dfgs) = old.dfgs
        /\ (last.op = "sumFullDFGs" /\ IsPadded) =>
              /\ last.ok
              /\ DOMAIN dfgSum = 0..852
              /\ \A k \in 0..852 :
                    LET at == [i \in 1..Len(dfgs) |-> dfgsFull[i].counts[k]]  \* Padded(i)[k]
                    IN  dfgSum[k] = SumOver(at, 1..Len(dfgs))

\* the sum of two padded samples whose ranges overlap
C5_Witness ==
    /\ NativeSamples
    /\ last.op = "sumFullDFGs"
    /\ last.ok
    /\ IsPadded
    /\ Len(dfgs) = 2
    /\ \E k \in 0..852 : dfgsFull[1].counts[k] > 0 /\ dfgsFull[2].counts[k] > 0
    /\ \E k \in 0..852 : dfgsFull[1].counts[k] > 0 /\ dfgsFull[2].counts[k] = 0
    /\ \E k \in 0..852 : dfgSum[k] = 0

\* the stages a stage needs to have returned before it
Prerequisites(op) ==
    IF op \in {"sumFullDFGs", "smoothDFGs", "findTruncateIndices"} THEN {"padDFGs"}
    ELSE IF op = "truncateFullDFGs" THEN {"padDFGs"}
    ELSE IF op = "sumTruncatedDFGs" THEN {"truncateFullDFGs"}
    ELSE {}

\* C6: a stage call returns without an exception only if every prerequisite
\* stage has returned without one before (for truncateFullDFGs: padDFGs on
\* self and findTruncateIndices on gold).
C6_ReturnsOnlyAfterPrerequisites ==
    last.ok =>
        /\ Prerequisites(last.op) \subseteq done
        /\ last.op = "truncateFullDFGs" =>
              IF last.arg = 0 THEN "findTruncateIndices" \in done ELSE ref.found

\* C7: dfgsRaw, when it exists, holds the samples' counts as they were before
\* any background subtraction, and dfgsPreSmoothed, when it exists, the padded
\* counts as they were before any smoothing.
C7_SnapshotsHoldOriginals ==
    /\ "dfgsRaw" \in attrs => CountsOf(dfgsRaw) = preSub.dfgs
    /\ "dfgsPreSmoothed" \in attrs => CountsOf(dfgsPreSmoothed) = unsmoothed.dfgsFull

(***************************************************************************)
(* Properties of the truncation indices.                                   *)
(***************************************************************************)
MaxOf(c) == SetMax({c[k] : k \in DOMAIN c})

\* the first index of the maximum
FirstMax(c) == SetMin({k \in DOMAIN c : c[k] = MaxOf(c)})

\* the smallest index in lo..hi whose value is nearest to MaxOf(c) * fr[1]/fr[2]
Nearest(c, lo, hi, fr) ==
    LET gap(k) == Abs(c[k] * fr[2] - MaxOf(c) * fr[1])
        least == SetMin({gap(k) : k \in lo..hi})
    IN  SetMin({k \in lo..hi : gap(k) = least})

\* C3: findTruncateIndices on padded traces leaves one pair per trace of
\* dfgsFull, in order: leftIndex the smallest index in [0, maxIndex) nearest
\* to max * threshold and rightIndex the smallest such index in [maxIndex, L).
C3_OnePairPerTrace ==
    (last.op = "findTruncateIndices" /\ "padDFGs" \in done) =>
        /\ last.ok
        /\ Len(truncateIndices) = Len(dfgsFull)
        /\ \A i \in 1..Len(dfgsFull) :
             LET c == dfgsFull[i].counts
                 fr == Fractions[last.arg]
             IN  /\ FirstMax(c) > 0
                 /\ truncateIndices[i][1] = Nearest(c, 0, FirstMax(c) - 1, fr)
                 /\ truncateIndices[i][2] = Nearest(c, FirstMax(c), ALen(c) - 1, fr)

\* C8: findTruncateIndices and then truncateFullDFGs(self) on padded traces
\* with a positive maximum zero a head [0, leftIndex) and a tail
\* [rightIndex, L) that leave the maximum in place:
\* leftIndex <= maxIndex < rightIndex.
C8_PeakSurvivesTruncation ==
    (/\ last.op = "truncateFullDFGs"
     /\ last.arg = 0
     /\ last.ok
     /\ "padDFGs" \in done
     /\ "findTruncateIndices" \in done
     /\ Len(truncateIndices) = Len(dfgsFull)) =>
        \A i \in 1..Len(dfgsFull) :
            LET c == dfgsFull[i].counts
                cut == dfgsFullTruncated[i].counts
                leftIndex == truncateIndices[i][1]
                rightIndex == truncateIndices[i][2]
            IN  MaxOf(c) > 0 =>
                  /\ leftIndex <= FirstMax(c)
                  /\ FirstMax(c) < rightIndex
                  /\ cut[FirstMax(c)] = MaxOf(c)
                  /\ \A k \in DOMAIN c :
                        cut[k] = IF k < leftIndex \/ k >= rightIndex THEN 0 ELSE c[k]

(***************************************************************************)
(* Properties of the detector key.  The median is restated by sorting.     *)
(***************************************************************************)
\* twice the median of a non-empty array
TwiceMedian(w) ==
    LET n == ALen(w)
        sorted == SortedRange(w, 0, n - 1)
    IN  IF n % 2 = 1 THEN 2 * sorted[(n + 1) \div 2]
        ELSE sorted[n \div 2] + sorted[(n \div 2) + 1]

\* the median of a non-negative wavelength array with its fraction dropped
IntKey(w) == TwiceMedian(w) \div (2 * WlScale)

\* the median rounded to the nearest integer
RoundKey(w) == RoundHalfEven(TwiceMedian(w), 2 * WlScale)

\* with dk[i] the key of sample i and bk[j] the key of background j:
\* subtractBGs subtracts exactly the backgrounds whose key is the sample's,
\* and padDFGs pads by the table entry of the key, failing exactly when the
\* table has none
KeyLaw(dk, bk) ==
    /\ last.op = "subtractBGs" =>
          /\ last.ok
          /\ \A p \in 1..Len(dfgs) :
                LET M == {j \in 1..Len(bgs) : bk[j] = dk[p]}
                IN  \A k \in DOMAIN old.dfgs[p] :
                       LET bg == [j \in M |-> bgs[j].counts[k]]
                       IN  dfgs[p].counts[k] = old.dfgs[p][k] - SumOver(bg, M)
    /\ last.op = "padDFGs" =>
          /\ last.ok <=> \A i \in 1..Len(dfgs) : dk[i] \in DOMAIN padding
          /\ last.ok =>
                \A i \in 1..Len(dfgs) :
                    LET pad == padding[dk[i]]
                        n == ALen(dfgs[i].counts)
                    IN  /\ DOMAIN dfgsFull[i].counts = 0..(pad[1] + n + pad[2] - 1)
                        /\ \A k \in 0..(n - 1) :
                              dfgsFull[i].counts[pad[1] + k] = dfgs[i].counts[k]

\* C10 as stated: the key subtractBGs matches by and padDFGs looks up is
\* round(median(wavelength)), for every pair of medians.
C10_KeyIsRoundedMedian ==
    KeyLaw([i \in 1..Len(dfgs) |-> RoundKey(dfgs[i].wl)],
           [j \in 1..Len(bgs) |-> RoundKey(bgs[j].wl)])

\* C10 with int() for round(): the key is int(median(wavelength)), the
\* fraction dropped.
C10_KeyIsTruncatedMedian ==
    KeyLaw([i \in 1..Len(dfgs) |-> IntKey(dfgs[i].wl)],
           [j \in 1..Len(bgs) |-> IntKey(bgs[j].wl)])

\* a sample and a background with different, fractional medians that round
\* apart but truncate to the same key, the background subtracted
C10_Witness ==
    /\ last.op = "subtractBGs"
    /\ TwiceMedian(dfgs[1].wl) % (2 * WlScale) # 0
    /\ TwiceMedian(bgs[1].wl) % (2 * WlScale) # 0
    /\ TwiceMedian(dfgs[1].wl) # TwiceMedian(bgs[1].wl)
    /\ IntKey(dfgs[1].wl) = IntKey(bgs[1].wl)
    /\ RoundKey(dfgs[1].wl) # RoundKey(bgs[1].wl)
    /\ dfgs[1].counts # old.dfgs[1]
(***************************************************************************)
(* Properties of a stage call that ends with an exception.                 *)
(***************************************************************************)
\* the stages C11 names
FailingStages ==
    {"padDFGs", "sumFullDFGs", "smoothDFGs", "findTruncateIndices",
     "truncateFullDFGs", "sumTruncatedDFGs"}

\* the attributes a stage may leave on self, with their values
Snapshots ==
    <<attrs, dfgsRaw, dfgsFull, dfgSum, dfgsPreSmoothed, truncateIndices,
      dfgsFullTruncated, dfgTruncatedSum>>

\* C11: a call of padDFGs, sumFullDFGs, smoothDFGs, findTruncateIndices,
\* truncateFullDFGs or sumTruncatedDFGs that ends with an exception leaves
\* every snapshot (dfgsRaw, dfgsFull, dfgSum, dfgsPreSmoothed,
\* truncateIndices, dfgsFullTruncated, dfgTruncatedSum) existing or not as
\* before the call, and with the contents it had.
C11_FailedCallChangesNothing ==
    [][(calls' = calls + 1 /\ last'.op \in FailingStages /\ ~last'.ok)
          => Snapshots' = Snapshots]_vars
====
